---- MODULE Spec2Model ----
(***************************************************************************)
(* SubHunter (src/SubHunter.py): the crt.sh subdomain pipeline.            *)
(*                                                                         *)
(* fetch_subdomains   one GET per query through a urllib3 Retry session,   *)
(*                    the rate-limit sleep, response.json()                *)
(* process_subdomains root fetch, classification of every trimmed line,    *)
(*                    one level of wildcard expansion, wildcard merge      *)
(*                    policy, extension filter                             *)
(* save_to_file       the file sink of the main block                      *)
(*                                                                         *)
(* A Python str is modelled as a sequence of one-character strings, so     *)
(* that strip, splitlines, split, replace, endswith and `in` are computed  *)
(* character by character as the interpreter computes them.                *)
(***************************************************************************)
EXTENDS Integers, Sequences, FiniteSets, TLC

VARIABLES
    args,                \* process_subdomains' arguments (RunConfig)
    pc,                  \* position of the single control thread
    site,                \* which call of fetch_subdomains: "root" | "rec"
    subdomains,          \* the set `subdomains` (line 104)
    wildcard_subdomains, \* the set `wildcard_subdomains` (line 105)
    snapshot,            \* list(wildcard_subdomains) as taken at line 128
    todo,                \* members of that list the for loop has yet to visit
    query,               \* `domain` parameter of the running fetch_subdomains
    retry_total,         \* Retry.total left in the running session.get
    last,                \* outcome of the last attempt: the response / error
    slept,               \* time.sleep(rate_limit) ran in this fetch
    failed,              \* the except branch (lines 98-100) ran in this fetch
    jsondata,            \* value returned by fetch_subdomains
    lines,               \* trimmed-to-be lines still to pass to add_subdomain
    sent,                \* set of queries handed to session.get so far
    nsent,               \* number of fetch_subdomains calls so far
    result,              \* value returned by process_subdomains
    file,                \* state of the output file
    logged,              \* logging.error ran in save_to_file
    reported,            \* print_colored(..., RED) ran in save_to_file
    raised,              \* exception that left the callee ("none" if none)
    stable,              \* the data source answers a query always the same
    memo,                \* what it answered: set of <<query, records>>
    run,                 \* 1, or 2 in the second of two identical runs
    first                \* what the first of the two runs returned and sent

vars == <<args, pc, site, subdomains, wildcard_subdomains, snapshot, todo,
          query, retry_total, last, slept, failed, jsondata, lines, sent,
          nsent, result, file, logged, reported, raised, stable, memo, run,
          first>>

----------------------------------------------------------------------------
(* Bounds of the model *)

\* longest JSON array (number of records) the data source answers with
MaxRecords == 1

----------------------------------------------------------------------------
(* str methods, computed as CPython computes them *)

\* c in s
RECURSIVE In(_, _)
In(c, s) == IF s = <<>> THEN FALSE
            ELSE IF Head(s) = c THEN TRUE ELSE In(c, Tail(s))

IsSpace(c) == c \in {" ", "\t", "\n", "\r"}

RECURSIVE LStrip(_)
LStrip(s) == IF s # <<>> /\ IsSpace(Head(s)) THEN LStrip(Tail(s)) ELSE s

RECURSIVE RStrip(_)
RStrip(s) == IF s # <<>> /\ IsSpace(s[Len(s)])
             THEN RStrip(SubSeq(s, 1, Len(s) - 1)) ELSE s

\* s.strip()
Strip(s) == RStrip(LStrip(s))

\* s.replace(c, t) for a one-character c
RECURSIVE Replace(_, _, _)
Replace(s, c, t) ==
    IF s = <<>> THEN <<>>
    ELSE (IF Head(s) = c THEN t ELSE <<Head(s)>>) \o Replace(Tail(s), c, t)

\* index of the first c in s, 0 if there is none
RECURSIVE Find(_, _, _)
Find(s, c, i) == IF i > Len(s) THEN 0
                 ELSE IF s[i] = c THEN i ELSE Find(s, c, i + 1)

\* s.splitlines(): a trailing line break opens no further line
RECURSIVE SplitLines(_)
SplitLines(s) ==
    IF s = <<>> THEN <<>>
    ELSE LET i == Find(s, "\n", 1)
         IN  IF i = 0 THEN <<s>>
             ELSE <<SubSeq(s, 1, i - 1)>> \o SplitLines(SubSeq(s, i + 1, Len(s)))

\* s.split(c): always at least one item, empty items kept
RECURSIVE Split(_, _)
Split(s, c) ==
    LET i == Find(s, c, 1)
    IN  IF i = 0 THEN <<s>>
        ELSE <<SubSeq(s, 1, i - 1)>> \o Split(SubSeq(s, i + 1, Len(s)), c)

\* s.endswith(suffix)
EndsWith(s, suffix) ==
    /\ Len(suffix) <= Len(s)
    /\ SubSeq(s, Len(s) - Len(suffix) + 1, Len(s)) = suffix

----------------------------------------------------------------------------
(* The inputs: arguments, and what the data source may answer *)

\* args.domain
Domain == <<"a", ".", "i", "o">>

\* the records of the data source: name_value is "a.io\n*.a.io" in the first,
\* " b.org \n*.b.org\n *.a.io\n" in the second, and missing in the third
Records ==
    << [name_value |->
          <<"a", ".", "i", "o", "\n", "*", ".", "a", ".", "i", "o">>],
       [name_value |->
          <<" ", "b", ".", "o", "r", "g", " ", "\n",
            "*", ".", "b", ".", "o", "r", "g", "\n",
            " ", "*", ".", "a", ".", "i", "o", "\n">>],
       [issuer_ca_id |-> 1] >>

\* which records an answer holds: at most MaxRecords of them, each once, in
\* the order of Records
Selections ==
    UNION {{ix \in [1..k -> 1..Len(Records)] :
                \A i \in 1..k, j \in 1..k : i < j => ix[i] < ix[j]}
           : k \in 0..MaxRecords}

\* the JSON arrays the data source may answer with
JsonArrays == {[i \in 1..Len(ix) |-> Records[ix[i]]] : ix \in Selections}

\* a response body: a JSON array, or text that is no JSON
Bodies == {[json |-> TRUE, data |-> d] : d \in JsonArrays}
              \cup {[json |-> FALSE, data |-> <<>>]}

NoBody == [json |-> FALSE, data |-> <<>>]

\* What one attempt of session.get ends with. status 0: no response at all
\* (connection refused or reset, connect or read timeout). 304 stands for a
\* 3xx answer that requests does not follow, 404 for the 4xx answers; a 503
\* carries no Retry-After header.
Outcomes ==
    {[status |-> s, body |-> NoBody] : s \in {0, 404, 500, 502, 503, 504}}
        \cup {[status |-> s, body |-> b] : s \in {200, 304}, b \in Bodies}

NoOutcome == [status |-> 0 - 1, body |-> NoBody]

\* args.extensions: None and "" are both falsy at line 149 and are both
\* modelled as the empty string; "org"; "io, org"
ExtensionArgs ==
    { <<>>, <<"o", "r", "g">>, <<"i", "o", ",", " ", "o", "r", "g">> }

ArgSets ==
    [domain : {Domain}, recursive : BOOLEAN, wildcard : BOOLEAN,
     exclude_wildcards : BOOLEAN, extensions : ExtensionArgs]

----------------------------------------------------------------------------
(* requests_retry_session *)

\* Retry(total=retries, read=retries, connect=retries): every retry, whatever
\* its cause, takes one from total, and read and connect start no lower
retries == 3

\* variant: the list with 503 in the place of 500
status_forcelist_503 == {502, 503, 504}

status_forcelist == {500, 502, 504}

\* urllib3 retries an attempt that got no response, and a response whose
\* status is in status_forcelist
IsRetry(o) == o.status = 0 \/ o.status \in status_forcelist

\* response.raise_for_status(): HTTPError for 4xx and 5xx
RaisesForStatus(status) == 400 <= status /\ status < 600

----------------------------------------------------------------------------
(* The data source of two identical runs *)

Known(q) == \E m \in memo : m[1] = q

Answer(q) == (CHOOSE m \in memo : m[1] = q)[2]

\* may fetch_subdomains(q) return r? Always, unless the source is stable and
\* has answered q before
Admissible(q, r) == (stable /\ Known(q)) => r = Answer(q)

Remember(q, r) == IF stable THEN memo \cup {<<q, r>>} ELSE memo

----------------------------------------------------------------------------
\* the state as the interpreter reaches the call of process_subdomains
Begin(a, st) ==
    /\ args = a
    /\ pc = "call"
    /\ site = "root"
    /\ subdomains = {}
    /\ wildcard_subdomains = {}
    /\ snapshot = {}
    /\ todo = {}
    /\ query = <<>>
    /\ retry_total = retries
    /\ last = NoOutcome
    /\ slept = FALSE
    /\ failed = FALSE
    /\ jsondata = <<>>
    /\ lines = <<>>
    /\ sent = {}
    /\ nsent = 0
    /\ result = {}
    /\ file = [state |-> "none", format |-> "None"]
    /\ logged = FALSE
    /\ reported = FALSE
    /\ raised = "none"
    /\ stable = st
    /\ memo = {}
    /\ run = 1
    /\ first = [result |-> {}, sent |-> {}]

\* one run of the script, against a data source free to answer anything
Init == \E a \in ArgSets : Begin(a, FALSE)

\* two runs of process_subdomains with the same arguments, against a data
\* source that gives the same answer to the same query
InitTwice == \E a \in ArgSets : Begin(a, TRUE)

procVars == <<subdomains, wildcard_subdomains, snapshot, todo>>
fetchVars == <<query, site, retry_total, last, slept, failed, sent, nsent>>
sinkVars == <<file, logged, reported, raised>>
twinVars == <<stable, run, first>>

----------------------------------------------------------------------------
(* fetch_subdomains *)

\* the call: a new session (line 89) and the first session.get (line 92)
Call(q, s) ==
    /\ query' = q
    /\ site' = s
    /\ retry_total' = retries
    /\ last' = NoOutcome
    /\ slept' = FALSE
    /\ failed' = FALSE
    /\ jsondata' = <<>>
    /\ sent' = sent \cup {q}
    /\ nsent' = nsent + 1
    /\ pc' = "fetch"

\* the return of records r to process_subdomains
Return(r) ==
    /\ Admissible(query, r)
    /\ memo' = Remember(query, r)
    /\ jsondata' = r
    /\ pc' = "check"

\* response.json() (line 97); body that is no JSON raises
\* requests.exceptions.JSONDecodeError, a RequestException (requests >= 2.27)
Json(body) == IF body.json THEN body.data ELSE <<>>

\* an attempt fails in a way urllib3 retries, and Retry.total is not used up
RetryAttempt(o) ==
    /\ pc = "fetch"
    /\ IsRetry(o)
    /\ retry_total > 0
    /\ retry_total' = retry_total - 1
    /\ last' = o
    /\ UNCHANGED <<args, pc, site, query, slept, failed, jsondata, lines,
                   sent, nsent, result, memo>>
    /\ UNCHANGED <<procVars, sinkVars, twinVars>>

\* session.get or raise_for_status raises (ConnectionError, Timeout,
\* RetryError, HTTPError): logged, [] returned (lines 98-100)
FetchError(o) ==
    /\ pc = "fetch"
    /\ \/ IsRetry(o) /\ retry_total = 0
       \/ ~IsRetry(o) /\ RaisesForStatus(o.status)
    /\ last' = o
    /\ failed' = TRUE
    /\ Return(<<>>)
    /\ UNCHANGED <<args, site, query, retry_total, slept, lines, sent, nsent,
                   result>>
    /\ UNCHANGED <<procVars, sinkVars, twinVars>>

\* a response passes raise_for_status: time.sleep(rate_limit) begins (line 96)
Respond(o) ==
    /\ pc = "fetch"
    /\ ~IsRetry(o)
    /\ ~RaisesForStatus(o.status)
    /\ Admissible(query, Json(o.body))
    /\ last' = o
    /\ pc' = "sleep"
    /\ UNCHANGED <<args, site, query, retry_total, slept, failed, jsondata,
                   lines, sent, nsent, result, memo>>
    /\ UNCHANGED <<procVars, sinkVars, twinVars>>

\* variant: the records are returned with no sleep before
EndSleepSkipped ==
    /\ pc = "sleep"
    /\ Return(Json(last.body))
    /\ failed' = ~last.body.json
    /\ UNCHANGED <<args, site, query, retry_total, last, slept, lines, sent,
                   nsent, result>>
    /\ UNCHANGED <<procVars, sinkVars, twinVars>>

\* the sleep ends and response.json() is returned, or raises and [] is
\* returned from the except branch (lines 97-100)
EndSleep ==
    /\ pc = "sleep"
    /\ slept' = TRUE
    /\ failed' = ~last.body.json
    /\ Return(Json(last.body))
    /\ UNCHANGED <<args, site, query, retry_total, last, lines, sent, nsent,
                   result>>
    /\ UNCHANGED <<procVars, sinkVars, twinVars>>

----------------------------------------------------------------------------
(* process_subdomains *)

\* entry.get('name_value', '')
NameValue(entry) ==
    IF "name_value" \in DOMAIN entry THEN entry.name_value ELSE <<>>

\* the lines the two nested for loops hand to add_subdomain, in their order
RECURSIVE Extract(_)
Extract(data) ==
    IF data = <<>> THEN <<>>
    ELSE SplitLines(NameValue(Head(data))) \o Extract(Tail(data))

\* variant: the test of add_subdomain inverted
IsWildcardInverted(subdomain) == ~In("*", subdomain)

\* '*' in subdomain
IsWildcard(subdomain) == In("*", subdomain)

\* wildcard_subdomain.replace('*', '%25')
Encode(wildcard_subdomain) == Replace(wildcard_subdomain, "*", <<"%", "2", "5">>)

\* variant: difference_update first, then update
MergePolicySwapped(C, W, a) ==
    LET kept == IF a.exclude_wildcards THEN C \ W ELSE C
    IN  IF a.wildcard THEN kept \cup W ELSE kept

\* lines 140-146: update, then difference_update
MergePolicy(C, W, a) ==
    LET merged == IF a.wildcard THEN C \cup W ELSE C
    IN  IF a.exclude_wildcards THEN merged \ W ELSE merged

\* variant: the items of the list are not trimmed
ExtensionFilterUntrimmed(S, extensions) ==
    IF extensions # <<>>
    THEN LET exts == Split(extensions, ",")
         IN  {h \in S : \E i \in 1..Len(exts) :
                            EndsWith(h, <<".">> \o exts[i])}
    ELSE S

\* lines 149-156
ExtensionFilter(S, extensions) ==
    IF extensions # <<>>
    THEN LET exts == Split(extensions, ",")
         IN  {h \in S : \E i \in 1..Len(exts) :
                            EndsWith(h, <<".">> \o Strip(exts[i]))}
    ELSE S

\* lines 104-115: the two empty sets and the fetch for the main domain
CallRoot ==
    /\ pc = "call"
    /\ subdomains' = {}
    /\ wildcard_subdomains' = {}
    /\ Call(args.domain, "root")
    /\ UNCHANGED <<args, snapshot, todo, lines, result, memo>>
    /\ UNCHANGED <<sinkVars, twinVars>>

\* variant: no return at line 117, the function goes on
RootEmptyGoesOn ==
    /\ pc = "check"
    /\ site = "root"
    /\ jsondata = <<>>
    /\ pc' = "extract"
    /\ last' = NoOutcome
    /\ slept' = FALSE
    /\ failed' = FALSE
    /\ UNCHANGED <<args, site, query, retry_total, jsondata, lines, sent,
                   nsent, result, memo>>
    /\ UNCHANGED <<procVars, sinkVars, twinVars>>

\* line 116: nothing fetched for the main domain, the empty set is returned
RootEmpty ==
    /\ pc = "check"
    /\ site = "root"
    /\ jsondata = <<>>
    /\ result' = subdomains
    /\ pc' = "returned"
    /\ last' = NoOutcome
    /\ slept' = FALSE
    /\ failed' = FALSE
    /\ UNCHANGED <<args, site, query, retry_total, jsondata, lines, sent,
                   nsent, memo>>
    /\ UNCHANGED <<procVars, sinkVars, twinVars>>

\* variant: break at line 132 in the place of continue
RecEmptyBreaks ==
    /\ pc = "check"
    /\ site = "rec"
    /\ jsondata = <<>>
    /\ pc' = "loop"
    /\ todo' = {}
    /\ last' = NoOutcome
    /\ slept' = FALSE
    /\ failed' = FALSE
    /\ UNCHANGED <<args, site, query, retry_total, jsondata, lines, sent,
                   nsent, result, memo, subdomains, wildcard_subdomains,
                   snapshot>>
    /\ UNCHANGED <<sinkVars, twinVars>>

\* line 131: nothing fetched for this wildcard, continue with the next
RecEmpty ==
    /\ pc = "check"
    /\ site = "rec"
    /\ jsondata = <<>>
    /\ pc' = "loop"
    /\ last' = NoOutcome
    /\ slept' = FALSE
    /\ failed' = FALSE
    /\ UNCHANGED <<args, site, query, retry_total, jsondata, lines, sent,
                   nsent, result, memo>>
    /\ UNCHANGED <<procVars, sinkVars, twinVars>>

\* lines 120-123 and 134-137: the records fetched are walked
Walk ==
    /\ pc = "check"
    /\ jsondata # <<>>
    /\ lines' = Extract(jsondata)
    /\ jsondata' = <<>>
    /\ pc' = "extract"
    /\ last' = NoOutcome
    /\ slept' = FALSE
    /\ failed' = FALSE
    /\ UNCHANGED <<args, site, query, retry_total, sent, nsent, result, memo>>
    /\ UNCHANGED <<procVars, sinkVars, twinVars>>

\* lines 107-112, 124, 138: add_subdomain(subname.strip())
AddSubdomain ==
    /\ pc = "extract"
    /\ lines # <<>>
    /\ LET subdomain == Strip(Head(lines))
       IN  IF IsWildcard(subdomain)
           THEN /\ wildcard_subdomains' = wildcard_subdomains \cup {subdomain}
                /\ UNCHANGED subdomains
           ELSE /\ subdomains' = subdomains \cup {subdomain}
                /\ UNCHANGED wildcard_subdomains
    /\ lines' = Tail(lines)
    /\ UNCHANGED <<args, pc, snapshot, todo, jsondata, result, memo>>
    /\ UNCHANGED <<fetchVars, sinkVars, twinVars>>

\* lines 127-128: the main domain's records are done; in recursive mode the
\* for loop starts on a copy of the wildcard set
RootCollected ==
    /\ pc = "extract"
    /\ lines = <<>>
    /\ site = "root"
    /\ IF args.recursive
       THEN /\ snapshot' = wildcard_subdomains
            /\ todo' = wildcard_subdomains
            /\ pc' = "loop"
       ELSE /\ UNCHANGED <<snapshot, todo>>
            /\ pc' = "merge"
    /\ UNCHANGED <<args, subdomains, wildcard_subdomains, jsondata, lines,
                   result, memo>>
    /\ UNCHANGED <<fetchVars, sinkVars, twinVars>>

\* variant: the loop also takes up the wildcards found since the copy
RecCollectedExpands ==
    /\ pc = "extract"
    /\ lines = <<>>
    /\ site = "rec"
    /\ pc' = "loop"
    /\ todo' = todo \cup {w \in wildcard_subdomains \ snapshot :
                              Replace(w, "*", <<"%", "2", "5">>) \notin sent}
    /\ UNCHANGED <<args, jsondata, lines, result, memo, subdomains,
                   wildcard_subdomains, snapshot>>
    /\ UNCHANGED <<fetchVars, sinkVars, twinVars>>

\* a wildcard's records are done: back to the head of the for loop
RecCollected ==
    /\ pc = "extract"
    /\ lines = <<>>
    /\ site = "rec"
    /\ pc' = "loop"
    /\ UNCHANGED <<args, jsondata, lines, result, memo>>
    /\ UNCHANGED <<procVars, fetchVars, sinkVars, twinVars>>

\* lines 128-130: the next member of the copy, in whatever order the list has
NextWildcard(wildcard_subdomain) ==
    /\ pc = "loop"
    /\ wildcard_subdomain \in todo
    /\ todo' = todo \ {wildcard_subdomain}
    /\ Call(Encode(wildcard_subdomain), "rec")
    /\ UNCHANGED <<args, subdomains, wildcard_subdomains, snapshot, lines,
                   result, memo>>
    /\ UNCHANGED <<sinkVars, twinVars>>

\* the for loop is over
LoopDone ==
    /\ pc = "loop"
    /\ todo = {}
    /\ pc' = "merge"
    /\ UNCHANGED <<args, jsondata, lines, result, memo>>
    /\ UNCHANGED <<procVars, fetchVars, sinkVars, twinVars>>

\* lines 140-158: wildcard policy, extension filter, return. subdomains keeps
\* the set the policy left (line 146), result is the set returned (line 158)
Finish ==
    /\ pc = "merge"
    /\ subdomains' = MergePolicy(subdomains, wildcard_subdomains, args)
    /\ result' = ExtensionFilter(subdomains', args.extensions)
    /\ pc' = "returned"
    /\ UNCHANGED <<args, wildcard_subdomains, snapshot, todo, jsondata, lines,
                   memo>>
    /\ UNCHANGED <<fetchVars, sinkVars, twinVars>>

----------------------------------------------------------------------------
(* the main block and save_to_file *)

\* args.format: 'json', 'csv', or None when -f is not given
Formats == {"json", "csv", "None"}

\* what open() or a write may raise, and "none"
Faults == {"none", "FileNotFoundError", "PermissionError", "OSError"}

\* variant: `except FileNotFoundError`
CaughtIfMissing(e) == e \in {"FileNotFoundError"}

\* line 173, `except Exception`: is e caught?
Caught(e) == e \in {"FileNotFoundError", "PermissionError", "OSError"}

\* open(output_file, 'w') fails before the file is touched; a failed write
\* leaves a truncated file
FileAfter(fault) ==
    CASE fault = "none" -> "written"
      [] fault \in {"FileNotFoundError", "PermissionError"} -> "unopened"
      [] OTHER -> "partial"

\* lines 224-225 and 160-175
SaveToFile(output_format, fault) ==
    /\ pc = "returned"
    /\ file' = [state |-> FileAfter(fault), format |-> output_format]
    /\ logged' = (fault # "none" /\ Caught(fault))
    /\ reported' = (fault # "none" /\ Caught(fault))
    /\ raised' = IF fault = "none" \/ Caught(fault) THEN "none" ELSE fault
    /\ pc' = "exit"
    /\ UNCHANGED <<args, jsondata, lines, result, memo>>
    /\ UNCHANGED <<procVars, fetchVars, twinVars>>

\* line 224: no -o option
NoOutput ==
    /\ pc = "returned"
    /\ pc' = "exit"
    /\ UNCHANGED <<args, jsondata, lines, result, memo>>
    /\ UNCHANGED <<procVars, fetchVars, sinkVars, twinVars>>

\* the same call of process_subdomains once more
SecondRun ==
    /\ pc = "returned"
    /\ run = 1
    /\ first' = [result |-> result, sent |-> sent]
    /\ run' = 2
    /\ pc' = "call"
    /\ site' = "root"
    /\ subdomains' = {}
    /\ wildcard_subdomains' = {}
    /\ snapshot' = {}
    /\ todo' = {}
    /\ query' = <<>>
    /\ sent' = {}
    /\ nsent' = 0
    /\ result' = {}
    /\ UNCHANGED <<args, retry_total, last, slept, failed, jsondata, lines,
                   memo, stable>>
    /\ UNCHANGED sinkVars

----------------------------------------------------------------------------
Process ==
    \/ CallRoot
    \/ \E o \in Outcomes : RetryAttempt(o)
    \/ \E o \in Outcomes : FetchError(o)
    \/ \E o \in Outcomes : Respond(o)
    \/ EndSleep
    \/ RootEmpty
    \/ RecEmpty
    \/ Walk
    \/ AddSubdomain
    \/ RootCollected
    \/ RecCollected
    \/ \E w \in todo : NextWildcard(w)
    \/ LoopDone
    \/ Finish

Next ==
    \/ Process
    \/ \E f \in Formats, e \in Faults : SaveToFile(f, e)
    \/ NoOutput

NextTwice ==
    \/ Process
    \/ SecondRun

Spec == Init /\ [][Next]_vars

\* one run with the wildcard and extension options left out: they play no
\* part in a fetch
InitPlain ==
    \E a \in ArgSets :
        /\ ~a.wildcard /\ ~a.exclude_wildcards /\ a.extensions = <<>>
        /\ Begin(a, FALSE)

\* the control thread is never stopped from outside, and every blocking call
\* (session.get under its timeout, time.sleep, the file writes) returns
FairSpec == InitPlain /\ [][Next]_vars /\ WF_vars(Next)

TwiceSpec == InitTwice /\ [][NextTwice]_vars

----------------------------------------------------------------------------
(* Properties *)

Collecting == pc \in {"fetch", "sleep", "check", "extract", "loop", "merge"}

HasStar(h) == "*" \in {h[i] : i \in DOMAIN h}

\* C1: with no extension filter, process_subdomains returns the concrete
\* set C as it stands at the end of collection when exclude_wildcards is set
\* (no member of W, whatever wildcard is), C \cup W when wildcard is set and
\* exclude_wildcards is not, and C when neither is set.
MergeOrder ==
    [][(Collecting /\ pc' = "returned" /\ args.extensions = <<>>) =>
          /\ args.exclude_wildcards =>
                /\ result' = subdomains
                /\ result' \cap wildcard_subdomains = {}
          /\ (args.wildcard /\ ~args.exclude_wildcards) =>
                result' = subdomains \cup wildcard_subdomains
          /\ (~args.wildcard /\ ~args.exclude_wildcards) =>
                result' = subdomains]_vars

\* C1 witness: both flags set, wildcards were collected, and the run returned
\* a non-empty set
MergeOrderWitness ==
    /\ pc = "returned"
    /\ args.wildcard /\ args.exclude_wildcards
    /\ args.extensions = <<>>
    /\ wildcard_subdomains # {}
    /\ result # {}

\* C2: in recursive mode the queries sent after the root query are the
\* wildcards collected from the root fetch, each with '*' replaced by '%25':
\* never any other query, all of them once the loop is over, and never a
\* wildcard that a recursive answer was the first to bring.
OneLevel ==
    args.recursive =>
        /\ sent \ {args.domain} \subseteq
               {Replace(w, "*", <<"%", "2", "5">>) : w \in snapshot}
        /\ pc \in {"merge", "returned", "exit"} =>
               sent \ {args.domain} =
                   {Replace(w, "*", <<"%", "2", "5">>) : w \in snapshot}
        /\ \A w \in wildcard_subdomains \ snapshot :
               Replace(w, "*", <<"%", "2", "5">>) \notin sent
        /\ nsent <= 1 => snapshot \subseteq wildcard_subdomains
        /\ nsent <= 1 + Cardinality(snapshot)

\* C2 witness: the run is over, and a recursive answer brought a wildcard
\* that the root answer had not
OneLevelWitness ==
    /\ pc = "returned"
    /\ args.recursive
    /\ snapshot # {}
    /\ wildcard_subdomains \ snapshot # {}

\* h ends with '.' followed by e
EndsInDot(h, e) == \E k \in 0..Len(h) : h = SubSeq(h, 1, k) \o <<".">> \o e

\* the trimmed items of the comma-separated list
Listed(extensions) ==
    {Strip(Split(extensions, ",")[i]) : i \in 1..Len(Split(extensions, ","))}

\* C3: with an extension list, the set returned holds exactly the hostnames
\* left by the wildcard merge policy that end with '.' and a trimmed item of
\* the list; without one, the set left by the merge policy is returned as is.
ExtensionsKept ==
    pc \in {"returned", "exit"} =>
        IF args.extensions # <<>>
        THEN /\ \A h \in result :
                    \E e \in Listed(args.extensions) : EndsInDot(h, e)
             /\ \A h \in subdomains :
                    (\E e \in Listed(args.extensions) : EndsInDot(h, e))
                        => h \in result
             /\ result \subseteq subdomains
        ELSE result = subdomains

\* C3 witness: a filtered run that kept one hostname and dropped another
ExtensionsKeptWitness ==
    /\ pc = "returned"
    /\ args.extensions # <<>>
    /\ result # {}
    /\ subdomains \ result # {}

SkipFailedWildcard ==
    [][/\ (pc = "check" /\ site = "rec" /\ failed) =>
              /\ subdomains' = subdomains
              /\ wildcard_subdomains' = wildcard_subdomains
              /\ todo' = todo
              /\ snapshot' = snapshot
              /\ nsent' = nsent
              /\ pc' = "loop"
       /\ (args.recursive /\ pc' = "merge") =>
              /\ \A w \in snapshot' :
                     Replace(w, "*", <<"%", "2", "5">>) \in sent'
              /\ nsent' = 1 + Cardinality(snapshot')
       /\ (Collecting /\ Collecting' /\ pc # "merge") =>
              /\ subdomains \subseteq subdomains'
              /\ wildcard_subdomains \subseteq wildcard_subdomains']_vars

\* C5 witness: a wildcard's fetch has failed while hostnames are collected
\* and another wildcard is still to visit
SkipFailedWildcardWitness ==
    /\ pc = "check"
    /\ site = "rec"
    /\ failed
    /\ todo # {}
    /\ subdomains # {}

\* C6 as stated: an attempt that ends in a connection failure or in status
\* 502, 503 or 504 is retried while retries are left.
RetryOn503 ==
    [][(pc = "fetch" /\ retry_total > 0
            /\ last'.status \in {0, 502, 503, 504}) =>
          /\ pc' = "fetch"
          /\ retry_total' = retry_total - 1]_vars

\* C6 as amended: an attempt that ends in a connection failure or in status
\* 500, 502 or 504 is retried while retries are left; a 503 without a
\* Retry-After header ends the fetch at once with the empty result; every
\* attempt that does not end the fetch uses up one of the 3 retries; and
\* every fetch ends, with the parsed records or with the empty result.
RetryBounded ==
    /\ [][pc = "fetch" =>
            /\ (retry_total > 0 /\ last'.status \in {0, 500, 502, 504}) =>
                   /\ pc' = "fetch"
                   /\ retry_total' = retry_total - 1
            /\ last'.status = 503 => (pc' = "check" /\ jsondata' = <<>>)
            /\ pc' = "fetch" => retry_total' = retry_total - 1
            /\ retry_total' \in 0..3
            /\ pc' = "check" =>
                   \/ jsondata' = <<>>
                   \/ last'.body.json /\ jsondata' = last'.body.data]_vars
    /\ (pc = "fetch") ~> (pc = "check")

\* C6 witness: a fetch that was retried three times and then returned records
RetryBoundedWitness ==
    /\ pc = "check"
    /\ retry_total = 0
    /\ jsondata # <<>>

\* C7: add_subdomain puts the trimmed hostname into the wildcard set if it
\* holds a '*' and into the concrete set if not, and changes nothing else;
\* while hostnames are collected the two sets are disjoint and no concrete
\* name holds a '*'.
Classification ==
    [][(pc = "extract" /\ lines # <<>>) =>
          LET h == Strip(Head(lines))
          IN  /\ HasStar(h) =>
                     /\ wildcard_subdomains' = wildcard_subdomains \cup {h}
                     /\ subdomains' = subdomains
              /\ ~HasStar(h) =>
                     /\ subdomains' = subdomains \cup {h}
                     /\ wildcard_subdomains' = wildcard_subdomains
              /\ subdomains' \cap wildcard_subdomains' = {}
              /\ \A c \in subdomains' : ~HasStar(c)
              /\ \A w \in wildcard_subdomains' : HasStar(w)
              /\ UNCHANGED <<args, snapshot, todo, result, sent, nsent, file,
                             raised>>]_vars

\* C7 witness: during the expansion of a wildcard both sets hold hostnames
\* and a line is about to be classified
ClassificationWitness ==
    /\ pc = "extract"
    /\ site = "rec"
    /\ lines # <<>>
    /\ subdomains # {}
    /\ wildcard_subdomains # {}

\* C8: the second of two runs with the same arguments, against a data source
\* that answers the same query the same way, returns the set the first run
\* returned and sends the set of queries the first run sent.
SameTwice ==
    (run = 2 /\ pc = "returned") =>
        /\ result = first.result
        /\ sent = first.sent

\* C8 witness: the second run is over, after the root query and two
\* wildcard queries, with hostnames to return
SameTwiceWitness ==
    /\ run = 2
    /\ pc = "returned"
    /\ Cardinality(sent) = 3
    /\ result # {}

\* C9: whatever open or a write raises in save_to_file, in either format, is
\* caught there: it is logged and reported, no exception reaches the caller,
\* the script goes on to its end and the set of subdomains is as it was.
SaveFailureCaught ==
    [][pc = "returned" =>
          /\ raised' = "none"
          /\ pc' = "exit"
          /\ result' = result
          /\ file'.state \in {"unopened", "partial"} =>
                 (logged' /\ reported')]_vars

\* C9 witness: a write of the JSON file has failed and the script is at its end
SaveFailureCaughtWitness ==
    /\ pc = "exit"
    /\ file = [state |-> "partial", format |-> "json"]
    /\ logged
    /\ result # {}

\* C10 as stated: a fetch that returns without failure has slept before, and
\* a failed fetch has not.
SleepIffSuccess ==
    pc = "check" => (slept <=> ~failed)

\* C10 as amended: fetches are one after the other; a fetch sleeps if and
\* only if its response passed the status check, which every fetch that
\* returns records did, and returns only after that sleep; a fetch that
\* failed before (no response, or a 4xx or 5xx status) returns the empty
\* result without sleeping, one that failed after (a body that is no JSON)
\* returns the empty result after the sleep.
SleepAfterStatusCheck ==
    [][/\ pc' = "check" =>
              /\ slept' <=> (last'.status # 0 /\ last'.status \notin 400..599)
              /\ ~failed' => slept'
              /\ jsondata' # <<>> => slept'
              /\ (failed' /\ slept') => (~last'.body.json /\ jsondata' = <<>>)
       /\ nsent' # nsent => (pc \in {"call", "loop"} /\ pc' = "fetch")
       /\ pc = "sleep" => (pc' = "check" /\ nsent' = nsent)]_vars

\* C10 witness: the fetch for a wildcard has slept and returns its records
SleepAfterStatusCheckWitness ==
    /\ pc = "check"
    /\ site = "rec"
    /\ slept
    /\ jsondata # <<>>

====
